---- MODULE Spec2Model ----
(***************************************************************************)
(* A model of cuda::launch_config_builder_t                                *)
(* (src/src/cuda/api/launch_config_builder.hpp): the builder's fields, its *)
(* chaining mutators, resolve_dimensions() and build(); and of             *)
(* cuda::rtc::compilation_options_t (src/src/cuda/rtc/compilation_options  *)
(* .hpp): its fields, its shorthand methods and rtc::process().            *)
(*                                                                         *)
(* An optional<T> is a sequence of length 0 (nullopt) or 1 (the value).    *)
(* A dimensions triple is <<x, y, z>>.  An exception is a record           *)
(* [type, what]; NoThrow stands for a normal return.                       *)
(***************************************************************************)
EXTENDS Integers, Sequences, FiniteSets, TLC

(***************************************************************************)
(* Bounds of the model.                                                    *)
(***************************************************************************)
\* largest x component of a block or grid triple passed to a mutator
MaxDim == 2
\* largest x component of an overall triple passed to a mutator
MaxOverall == 3

\* most fields of a compilation_options_t, the fast-math ones and the targets
\* apart, that differ from their defaults at a time
MaxOptionsSet == 1

\* dimension_t (= block_dimension_t) holds the values 0 .. DimensionLimit-1;
\* the 32-bit unsigned type is scaled down to 3 bits.  overall_dimension_t
\* (size_t) is wide enough for every value of the model.
DimensionLimit == 8

\* the triples passed to the mutators: one-dimensional ones, a zero-volume one
\* among them, and two-dimensional ones
BlockDimsIn == {<<x, 1, 1>> : x \in 0..MaxDim} \cup {<<MaxDim, 2, 1>>}
GridDimsIn == {<<x, 1, 1>> : x \in 0..MaxDim} \cup {<<MaxDim, 2, 1>>}
\* overall sizes: the small ones, and the first one that dimension_t cannot hold
OverallDimsIn ==
    {<<x, 1, 1>> : x \in (0..MaxOverall) \cup {DimensionLimit}}
        \cup {<<x, 2, 1>> : x \in 2..MaxOverall}
\* arguments of dimensions(composite_dims)
CompositeDimsIn == {[block |-> <<b, 1, 1>>, grid |-> <<g, 1, 1>>] : b \in 0..MaxDim, g \in 0..MaxDim}
\* fixed dynamic shared memory sizes passed to the mutator
SharedMemorySizesIn == {0, 1}

(***************************************************************************)
(* optional<T>                                                             *)
(***************************************************************************)
nullopt == <<>>
Some(v) == <<v>>
has_value(o) == o # <<>>
value(o) == o[1]

(***************************************************************************)
(* Exceptions                                                              *)
(***************************************************************************)
NoThrow == [type |-> "none", what |-> ""]
logic_error(what) == [type |-> "logic_error", what |-> what]
invalid_argument(what) == [type |-> "invalid_argument", what |-> what]
\* optional<T>::value() on an empty optional
bad_optional_access == [type |-> "bad_optional_access", what |-> "bad optional access"]
\* integer division by zero where the hardware traps: the process is gone
SIGFPE == [type |-> "signal", what |-> "SIGFPE"]

\* the first exception of a sequence of checks run in order
RECURSIVE FirstThrow(_)
FirstThrow(checks) ==
    IF checks = <<>> THEN NoThrow
    ELSE IF Head(checks) # NoThrow THEN Head(checks)
    ELSE FirstThrow(Tail(checks))

Ok(v) == [thrown |-> NoThrow, value |-> Some(v)]
Throw(e) == [thrown |-> e, value |-> nullopt]

(***************************************************************************)
(* Dimension arithmetic                                                    *)
(***************************************************************************)
volume(dims) == dims[1] * dims[2] * dims[3]

\* grid * block, an overall_dimensions_t
DimsProduct(grid, block) == <<grid[1] * block[1], grid[2] * block[2], grid[3] * block[3]>>

\* a scalar converted to a dimensions triple
Linear(n) == <<n, 1, 1>>

\* grid::detail_::div_rounding_up on one axis, for a divisor other than 0.
\* The quotient is narrowed to dimension_t, and divisor * quotient is a
\* product of two dimension_t values, computed in that type.
div_rounding_up(dividend, divisor) ==
    LET quotient == (dividend \div divisor) % DimensionLimit
    IN  IF (divisor * quotient) % DimensionLimit = dividend
        THEN quotient
        ELSE (quotient + 1) % DimensionLimit

\* One axis where the hardware's integer division by zero yields 0 instead of
\* trapping: quotient = 0, and divisor * quotient = 0.
div_by_zero_untrapped(dividend) == IF dividend = 0 THEN 0 ELSE 1

div_axis(dividend, divisor) ==
    IF divisor = 0 THEN div_by_zero_untrapped(dividend)
    ELSE div_rounding_up(dividend, divisor)

\* grid::detail_::div_rounding_up on triples: the outcomes it can have.
\* Division by zero is undefined: the process traps, or the division yields 0.
div_rounding_up_dims(overall_dims, block_dims) ==
    LET q == <<div_axis(overall_dims[1], block_dims[1]),
               div_axis(overall_dims[2], block_dims[2]),
               div_axis(overall_dims[3], block_dims[3])>>
    IN  IF \E i \in 1..3 : block_dims[i] = 0
        THEN {Throw(SIGFPE), Ok(q)}
        ELSE {Ok(q)}

(***************************************************************************)
(* The collaborators: kernels and devices                                  *)
(***************************************************************************)
nullptr == "nullptr"
Kernels == {"k1", "k2"}
DeviceIds == {0}
\* a shared_memory_size_determiner_t: bytes as a function of the block volume
Determiners == {"two_bytes_per_thread"}

\* kernel_t::maximum_threads_per_block
kernel_maximum_threads_per_block(k) == IF k = "k1" THEN 2 ELSE 4

\* the largest dynamic shared memory size a kernel accepts
kernel_maximum_dynamic_shared_memory(k) == IF k = "k1" THEN 0 ELSE 2

\* kernel_t::max_active_blocks_per_multiprocessor
max_active_blocks_per_multiprocessor(k, num_block_threads, dshmem_size) ==
    LET room == kernel_maximum_threads_per_block(k) - dshmem_size
    IN  IF num_block_threads = 0 \/ room < num_block_threads THEN 0
        ELSE (room + 1) \div (num_block_threads + 1)

\* the determiner applied to a block volume
determine_shared_memory(determiner, block_volume) == 2 * block_volume

\* kernel_t::min_grid_params_for_max_occupancy, given a fixed size
min_grid_params_for_max_occupancy_size(k, dshmem_size) ==
    [block |-> Linear(IF dshmem_size = 0 THEN kernel_maximum_threads_per_block(k) ELSE 1),
     grid  |-> Linear(IF k = "k1" THEN 2 ELSE 3)]

\* kernel_t::min_grid_params_for_max_occupancy, given a determiner
min_grid_params_for_max_occupancy_determiner(k, determiner) ==
    [block |-> Linear(2), grid |-> Linear(IF k = "k1" THEN 1 ELSE 2)]

\* device_t::maximum_threads_per_block
device_maximum_threads_per_block(d) == 3

\* the largest dynamic shared memory size a device accepts
device_maximum_dynamic_shared_memory(d) == 1

\* device_t::get_attribute(CU_DEVICE_ATTRIBUTE_MULTIPROCESSOR_COUNT)
multiprocessor_count(d) == 2

\* detail_::validate_block_dimensions
validate_block_dimensions_(block_dims) ==
    IF volume(block_dims) = 0
    THEN invalid_argument("zero-volume block dimensions")
    ELSE NoThrow

\* detail_::validate_grid_dimensions
validate_grid_dimensions_(grid_dims) ==
    IF volume(grid_dims) = 0
    THEN invalid_argument("zero-volume grid dimensions")
    ELSE NoThrow

\* detail_::validate_block_dimension_compatibility(const kernel_t&, block_dims)
kernel_block_dimension_compatibility(k, block_dims) ==
    IF volume(block_dims) > kernel_maximum_threads_per_block(k)
    THEN invalid_argument("block dimensions exceed the kernel's maximum")
    ELSE NoThrow

\* detail_::validate_block_dimension_compatibility(const device_t&, block_dims)
device_block_dimension_compatibility(d, block_dims) ==
    IF volume(block_dims) > device_maximum_threads_per_block(d)
    THEN invalid_argument("block dimensions exceed the device's maximum")
    ELSE NoThrow

\* detail_::validate_compatibility(const kernel_t&, shared_mem_size)
kernel_shared_memory_compatibility(k, shared_mem_size) ==
    IF shared_mem_size > kernel_maximum_dynamic_shared_memory(k)
    THEN invalid_argument("dynamic shared memory size exceeds the kernel's maximum")
    ELSE NoThrow

\* detail_::validate_compatibility(const device_t&, shared_mem_size)
device_shared_memory_compatibility(d, shared_mem_size) ==
    IF shared_mem_size > device_maximum_dynamic_shared_memory(d)
    THEN invalid_argument("dynamic shared memory size exceeds the device's maximum")
    ELSE NoThrow

(***************************************************************************)
(* rtc::compilation_options_t and rtc::process                             *)
(***************************************************************************)
\* device::compute_capability_t values, and their as_combined_number()
ComputeCapabilities == {[major |-> 5, minor |-> 2], [major |-> 6, minor |-> 0]}
as_combined_number(compute_capability) ==
    compute_capability.major * 10 + compute_capability.minor

\* an unsigned number streamed into the target: its decimal digits
RECURSIVE Decimal(_)
Decimal(n) ==
    IF n < 10 THEN SubSeq("0123456789", n + 1, n + 1)
    ELSE Decimal(n \div 10) \o SubSeq("0123456789", (n % 10) + 1, (n % 10) + 1)

\* cpp_dialect_t and detail_::cpp_dialect_names
cpp03 == 0
cpp_dialect_last == 3
cpp_dialect_names == <<"c++03", "c++11", "c++14", "c++17">>

\* detail_::cpp_dialect_from_name
cpp_dialect_from_name(dialect_name) ==
    IF \E d \in cpp03..cpp_dialect_last : cpp_dialect_names[d + 1] = dialect_name
    THEN Ok(CHOOSE d \in cpp03..cpp_dialect_last : cpp_dialect_names[d + 1] = dialect_name)
    ELSE Throw(invalid_argument("No C++ dialect named \"" \o dialect_name \o "\""))

\* error::handling_method_t and error::detail_::option_name_part
raise_error == 0
suppress == 1
warn == 2
option_name_part(method) == <<"error", "suppress", "warn">>[method + 1]

\* the empty unordered_map
EmptyMap == <<>>

\* compilation_options_t: the default member initializers
DefaultOptions ==
    [targets_ |-> {},
     generate_relocatable_code |-> FALSE,
     compile_extensible_whole_program |-> FALSE,
     debug |-> FALSE,
     optimize_device_code_in_debug_mode |-> FALSE,
     generate_line_info |-> FALSE,
     support_128bit_integers |-> FALSE,
     indicate_function_inlining |-> FALSE,
     compiler_self_identification |-> FALSE,
     maximum_register_count |-> nullopt,
     flush_denormal_floats_to_zero |-> FALSE,
     use_precise_square_root |-> TRUE,
     use_precise_division |-> TRUE,
     use_fused_multiply_add |-> TRUE,
     use_fast_math |-> FALSE,
     link_time_optimization |-> FALSE,
     source_dirs_in_include_path |-> TRUE,
     extra_device_vectorization |-> FALSE,
     specify_language_dialect |-> FALSE,
     language_dialect |-> cpp03,
     no_value_defines |-> {},
     undefines |-> {},
     valued_defines |-> EmptyMap,
     disable_warnings |-> FALSE,
     assume_restrict |-> FALSE,
     default_execution_space_is_device |-> FALSE,
     display_error_numbers |-> TRUE,
     ptxas |-> "",
     additional_include_paths |-> <<>>,
     preinclude_files |-> <<>>,
     builtin_move_and_forward |-> TRUE,
     increase_stack_limit_to_max |-> TRUE,
     builtin_initializer_list |-> TRUE,
     extra_options |-> <<>>,
     error_handling_overrides |-> EmptyMap]

\* The single-token toggles process() tests before the fast-math ones, in its
\* order: the field, the value at which the option is marshalled, the option.
SimpleToggles == <<
    <<"generate_relocatable_code", TRUE, "--relocatable-device-code=true">>,
    <<"compile_extensible_whole_program", TRUE, "--extensible-whole-program=true">>,
    <<"debug", TRUE, "--device-debug">>,
    <<"generate_line_info", TRUE, "--generate-line-info">>,
    <<"support_128bit_integers", TRUE, "--device-int128">>,
    <<"indicate_function_inlining", TRUE, "--optimization-info=inline">>,
    <<"compiler_self_identification", TRUE, "--version-ident=true">>,
    <<"builtin_initializer_list", FALSE, "--builtin-initializer-list=false">>,
    <<"source_dirs_in_include_path", FALSE, "--no-source-include ">>,
    <<"extra_device_vectorization", TRUE, "--extra-device-vectorization">>,
    <<"disable_warnings", TRUE, "--disable-warnings">>,
    <<"assume_restrict", TRUE, "--restrict">>,
    <<"default_execution_space_is_device", TRUE, "--device-as-default-execution-space">>,
    <<"display_error_numbers", FALSE, "--no-display-error-number">>,
    <<"builtin_move_and_forward", FALSE, "--builtin-move-forward=false">>,
    <<"increase_stack_limit_to_max", FALSE, "--modify-stack-limit=false">>,
    <<"link_time_optimization", TRUE, "--dlink-time-opt">> >>

\* the orders in which an unordered container can be iterated
RECURSIVE Orders(_)
Orders(S) ==
    IF S = {} THEN {<<>>}
    ELSE UNION {{<<x>> \o rest : rest \in Orders(S \ {x})} : x \in S}

\* detail_::opt_start_t and the target it is streamed into, as one value:
\* what the target received so far, ever_used, and the delimiter
opt_start_t(delimiter) == [marshalled |-> <<>>, ever_used |-> FALSE, delimiter |-> delimiter]

\* marshalled << opt_start
stream_opt_start(mt) ==
    IF ~mt.ever_used
    THEN [mt EXCEPT !.ever_used = TRUE]
    ELSE [mt EXCEPT !.marshalled = Append(@, mt.delimiter)]

\* a plausible slip: the delimiter is streamed on the first use as well
stream_option_always_delimited(mt, parts) ==
    [mt EXCEPT !.ever_used = TRUE, !.marshalled = Append(@, mt.delimiter) \o parts]

\* marshalled << opt_start << part << ... << part
stream_option(mt, parts) ==
    LET started == stream_opt_start(mt)
    IN  [started EXCEPT !.marshalled = @ \o parts]

\* if (condition) { marshalled << opt_start << ... }
stream_option_if(mt, condition, parts) ==
    IF condition THEN stream_option(mt, parts) ELSE mt

\* a loop streaming one option per element: options[i] holds the parts of the
\* i-th one
RECURSIVE stream_each(_, _)
stream_each(mt, options) ==
    IF options = <<>> THEN mt
    ELSE stream_each(stream_option(mt, Head(options)), Tail(options))

\* the single-token toggles from the i-th on
RECURSIVE stream_simple_toggles(_, _, _)
stream_simple_toggles(mt, opts, i) ==
    IF i > Len(SimpleToggles) THEN mt
    ELSE stream_simple_toggles(
            stream_option_if(mt, opts[SimpleToggles[i][1]] = SimpleToggles[i][2],
                             <<SimpleToggles[i][3]>>),
            opts, i + 1)

\* a plausible slip: the toggles fast math subsumes are marshalled with it
stream_fast_math_with_toggles(mt, opts) ==
    LET fast == stream_option_if(mt, opts.use_fast_math, <<"--use_fast_math">>)
        ftz  == stream_option_if(fast, opts.flush_denormal_floats_to_zero, <<"--ftz">>)
        sqrt == stream_option_if(ftz, ~opts.use_precise_square_root, <<"--prec-sqrt=false">>)
        div  == stream_option_if(sqrt, ~opts.use_precise_division, <<"--prec-div=false">>)
    IN  stream_option_if(div, ~opts.use_fused_multiply_add, <<"--fmad=false">>)

\* process(): the fast-math options
stream_fast_math(mt, opts) ==
    IF opts.use_fast_math THEN stream_option(mt, <<"--use_fast_math">>)
    ELSE LET ftz  == stream_option_if(mt, opts.flush_denormal_floats_to_zero, <<"--ftz">>)
             sqrt == stream_option_if(ftz, ~opts.use_precise_square_root, <<"--prec-sqrt=false">>)
             div  == stream_option_if(sqrt, ~opts.use_precise_division, <<"--prec-div=false">>)
         IN  stream_option_if(div, ~opts.use_fused_multiply_add, <<"--fmad=false">>)

\* process(): the options with one value, after the fast-math ones
stream_valued_options(mt, opts) ==
    LET dopt    == stream_option_if(mt, opts.optimize_device_code_in_debug_mode, <<"--dopt=on">>)
        ptxas   == stream_option_if(dopt, opts.ptxas # "", <<"--ptxas-options=", opts.ptxas>>)
        dialect == stream_option_if(ptxas, opts.specify_language_dialect,
                        <<"--std=", cpp_dialect_names[opts.language_dialect + 1]>>)
    IN  stream_option_if(dialect, has_value(opts.maximum_register_count),
                        <<"--maxrregcount", Decimal(value(opts.maximum_register_count))>>)

\* process(): the multi-value options, the unordered containers iterated in the
\* orders given (CUDA_VERSION >= 11000)
stream_multi_value_options(mt, opts, targets, undefs, defs, valued, overrides) ==
    LET t == stream_each(mt, [i \in 1..Len(targets) |->
                <<"--gpu-architecture=sm_", Decimal(as_combined_number(targets[i]))>>])
        u == stream_each(t, [i \in 1..Len(undefs) |-> <<"-U", undefs[i]>>])
        d == stream_each(u, [i \in 1..Len(defs) |-> <<"-D", defs[i]>>])
        v == stream_each(d, [i \in 1..Len(valued) |->
                <<"-D", valued[i], "=", opts.valued_defines[valued[i]]>>])
        p == stream_each(v, [i \in 1..Len(opts.additional_include_paths) |->
                <<"--include-path=", opts.additional_include_paths[i]>>])
        f == stream_each(p, [i \in 1..Len(opts.preinclude_files) |->
                <<"--pre-include=", opts.preinclude_files[i]>>])
        e == stream_each(f, [i \in 1..Len(overrides) |->
                <<"--diag-", option_name_part(opts.error_handling_overrides[overrides[i]]),
                  "=", Decimal(overrides[i])>>])
    IN  stream_each(e, [i \in 1..Len(opts.extra_options) |-> <<opts.extra_options[i]>>])

\* rtc::process(opts, marshalled, delimiter, need_delimited_after_every_option):
\* what an empty target can have received when it returns
process(opts, delimiter, need_delimited_after_every_option) ==
    LET single == stream_valued_options(
                    stream_fast_math(
                        stream_simple_toggles(opt_start_t(delimiter), opts, 1), opts), opts)
    IN  { LET all == stream_multi_value_options(single, opts, targets, undefs, defs, valued, overrides)
          IN  IF need_delimited_after_every_option
              THEN stream_opt_start(all).marshalled
              ELSE all.marshalled :
            targets \in Orders(opts.targets_),
            undefs \in Orders(opts.undefines),
            defs \in Orders(opts.no_value_defines),
            valued \in Orders(DOMAIN opts.valued_defines),
            overrides \in Orders(DOMAIN opts.error_handling_overrides) }

(***************************************************************************)
(* The builder                                                             *)
(***************************************************************************)
VARIABLES
    dimensions_,    \* [block, grid, overall], each an optional triple
    thread_block_cooperation,
    dynamic_shared_memory_size_determiner_,     \* nullptr or a determiner
    dynamic_shared_memory_size_,
    kernel_,        \* nullptr or a kernel
    device_,        \* optional<device::id_t>
    saturate_with_active_blocks_,
    use_min_params_for_max_occupancy_,
    NDEBUG,         \* the build defines NDEBUG: no validation
    called,         \* the member function called last
    thrown,         \* what the last call threw, or NoThrow
    returned,       \* optional: the launch_configuration_t the last call returned
    opts,           \* a compilation_options_t
    marshalled      \* optional: the last call of process(), its arguments and its target

builder == <<dimensions_, thread_block_cooperation,
             dynamic_shared_memory_size_determiner_, dynamic_shared_memory_size_,
             kernel_, device_, saturate_with_active_blocks_,
             use_min_params_for_max_occupancy_>>

vars == <<dimensions_, thread_block_cooperation,
          dynamic_shared_memory_size_determiner_, dynamic_shared_memory_size_,
          kernel_, device_, saturate_with_active_blocks_,
          use_min_params_for_max_occupancy_, NDEBUG, called, thrown, returned,
          opts, marshalled>>

\* the compilation options and the target of process()
rtc == <<opts, marshalled>>

\* launch_config_builder(): the member initializers
Constructed ==
    /\ dimensions_ = [block |-> nullopt, grid |-> nullopt, overall |-> nullopt]
    /\ thread_block_cooperation = FALSE
    /\ dynamic_shared_memory_size_determiner_ = nullptr
    /\ dynamic_shared_memory_size_ = 0
    /\ kernel_ = nullptr
    /\ device_ = nullopt
    /\ saturate_with_active_blocks_ = FALSE
    /\ use_min_params_for_max_occupancy_ = FALSE
    /\ called = "launch_config_builder"
    /\ thrown = NoThrow
    /\ returned = nullopt

\* a build without NDEBUG: the mutators and build() validate
Init == Constructed /\ NDEBUG = FALSE /\ opts = DefaultOptions /\ marshalled = nullopt

\* a build of either kind
InitAnyBuild ==
    Constructed /\ NDEBUG \in BOOLEAN /\ opts = DefaultOptions /\ marshalled = nullopt

(***************************************************************************)
(* Validation and resolution                                               *)
(***************************************************************************)
\* detail_::validate_all_dimension_compatibility
validate_all_dimension_compatibility(block, grid, overall) ==
    IF DimsProduct(grid, block) # overall
    THEN invalid_argument("specified block, grid and overall dimensions do not agree")
    ELSE NoThrow

\* validate_compatibility(const kernel_t*, shared_mem_size)
validate_compatibility_kernel(kernel_ptr, shared_mem_size) ==
    IF kernel_ptr = nullptr THEN NoThrow
    ELSE kernel_shared_memory_compatibility(kernel_ptr, shared_mem_size)

\* validate_compatibility(optional<device::id_t>, shared_mem_size)
validate_compatibility_device(maybe_device_id, shared_mem_size) ==
    IF ~has_value(maybe_device_id) THEN NoThrow
    ELSE device_shared_memory_compatibility(value(maybe_device_id), shared_mem_size)

\* validate_dynamic_shared_memory_size
validate_dynamic_shared_memory_size(size) ==
    FirstThrow(<<validate_compatibility_kernel(kernel_, size),
                 validate_compatibility_device(device_, size)>>)

\* validate_block_dimension_compatibility(const kernel_t*, block_dims)
validate_block_dimension_compatibility_kernel(kernel_ptr, block_dims) ==
    IF kernel_ptr = nullptr THEN NoThrow
    ELSE kernel_block_dimension_compatibility(kernel_ptr, block_dims)

\* validate_block_dimension_compatibility(optional<device::id_t>, block_dims)
validate_block_dimension_compatibility_device(maybe_device_id, block_dims) ==
    IF ~has_value(maybe_device_id) THEN NoThrow
    ELSE device_block_dimension_compatibility(value(maybe_device_id), block_dims)

\* validate_block_dimensions
validate_block_dimensions(block_dims) ==
    FirstThrow(<<
        validate_block_dimensions_(block_dims),
        IF has_value(dimensions_.grid) /\ has_value(dimensions_.overall)
        THEN validate_all_dimension_compatibility(
                block_dims, value(dimensions_.grid), value(dimensions_.overall))
        ELSE NoThrow,
        validate_block_dimension_compatibility_kernel(kernel_, block_dims),
        validate_block_dimension_compatibility_device(device_, block_dims)>>)

\* validate_grid_dimensions
validate_grid_dimensions(grid_dims) ==
    FirstThrow(<<
        validate_grid_dimensions_(grid_dims),
        IF has_value(dimensions_.block) /\ has_value(dimensions_.overall)
        THEN validate_all_dimension_compatibility(
                value(dimensions_.block), grid_dims, value(dimensions_.overall))
        ELSE NoThrow>>)

\* a plausible slip: only the x axis is compared
validate_overall_dimensions_x_only(overall_dims) ==
    IF /\ has_value(dimensions_.block) /\ has_value(dimensions_.grid)
       /\ DimsProduct(value(dimensions_.grid), value(dimensions_.block))[1] # overall_dims[1]
    THEN invalid_argument("specified overall dimensions conflict with the already-specified block and grid dimensions")
    ELSE NoThrow

\* validate_overall_dimensions
validate_overall_dimensions(overall_dims) ==
    IF /\ has_value(dimensions_.block) /\ has_value(dimensions_.grid)
       /\ DimsProduct(value(dimensions_.grid), value(dimensions_.block)) # overall_dims
    THEN invalid_argument("specified overall dimensions conflict with the already-specified block and grid dimensions")
    ELSE NoThrow

\* a plausible slip: the block is not checked against the kernel
validate_composite_dimensions_device_only(composite_dims) ==
    FirstThrow(<<
        validate_block_dimension_compatibility_device(device_, composite_dims.block),
        validate_block_dimension_compatibility_device(device_, composite_dims.grid)>>)

\* validate_composite_dimensions
validate_composite_dimensions(composite_dims) ==
    FirstThrow(<<
        validate_block_dimension_compatibility_kernel(kernel_, composite_dims.block),
        validate_block_dimension_compatibility_device(device_, composite_dims.block),
        validate_block_dimension_compatibility_device(device_, composite_dims.grid)>>)

\* get_dynamic_shared_memory_size
get_dynamic_shared_memory_size(block_dims) ==
    IF dynamic_shared_memory_size_determiner_ = nullptr
    THEN dynamic_shared_memory_size_
    ELSE determine_shared_memory(dynamic_shared_memory_size_determiner_, volume(block_dims))

BothModes == logic_error("Cannot both use the minimum grid parameters for achieving maximum occupancy, _and_ saturate the grid with fixed-size cubs.")
KernelMustBeSet == logic_error("A kernel must be set to determine how many blocks are required to saturate the device")
BlockMustBeKnown == logic_error("The block dimensions must be known to determine how many of them one needs for saturating a device")
ConflictingSpecifications == logic_error("Conflicting specifications: Grid or overall dimensions specified, but requested to saturate kernels with active blocks")
KernelMustBeSetForMinParams == logic_error("A kernel must be set to determine the minimum grid parameter sfor m")
NeitherBlockNorGrid == logic_error("Neither block nor grid dimensions have been specified")
GridWithoutBlock == logic_error("Attempt to obtain the composite grid dimensions, while the grid dimensions have only bee specified in terms of blocks, not threads, with no block dimensions specified")
OnlyBlock == logic_error("Only block dimensions have been specified - cannot resolve launch grid dimensions")
NoDeviceOrKernel == logic_error("Request to use the maximum-size linear block, with no device or kernel specified")

\* device(): the device of device_, or the exception of value() on nullopt
device == IF has_value(device_) THEN Ok(value(device_)) ELSE Throw(bad_optional_access)

\* The saturate branch of get_composite_dimensions, after its checks.
saturated_dimensions ==
    LET block == value(dimensions_.block)
        dshmem_size == get_dynamic_shared_memory_size(block)
        num_block_threads == volume(block)
        blocks_per_multiprocessor ==
            max_active_blocks_per_multiprocessor(kernel_, num_block_threads, dshmem_size)
    IN  IF device.thrown # NoThrow THEN Throw(device.thrown)
        ELSE Ok([block |-> block,
                 grid  |-> Linear(blocks_per_multiprocessor * multiprocessor_count(value(device.value)))])

\* a plausible slip: the last two messages exchanged
under_specified_exchanged ==
    IF ~has_value(dimensions_.block) /\ ~has_value(dimensions_.grid) THEN NeitherBlockNorGrid
    ELSE IF ~has_value(dimensions_.block) /\ ~has_value(dimensions_.overall) THEN OnlyBlock
    ELSE GridWithoutBlock

\* The end of get_composite_dimensions: fewer than two of block, grid and
\* overall are present, and the exception says which.
under_specified ==
    IF ~has_value(dimensions_.block) /\ ~has_value(dimensions_.grid) THEN NeitherBlockNorGrid
    ELSE IF ~has_value(dimensions_.block) /\ ~has_value(dimensions_.overall) THEN GridWithoutBlock
    ELSE OnlyBlock

\* get_unvalidated_composite_dimensions (get_composite_dimensions under
\* NDEBUG), with CUDA_VERSION >= 10000: the set of its outcomes.
get_unvalidated_composite_dimensions ==
    IF saturate_with_active_blocks_ THEN
        IF use_min_params_for_max_occupancy_ THEN {Throw(BothModes)}
        ELSE IF kernel_ = nullptr THEN {Throw(KernelMustBeSet)}
        ELSE IF ~has_value(dimensions_.block) THEN {Throw(BlockMustBeKnown)}
        ELSE IF has_value(dimensions_.grid) \/ has_value(dimensions_.overall)
            THEN {Throw(ConflictingSpecifications)}
        ELSE {saturated_dimensions}
    ELSE IF use_min_params_for_max_occupancy_ THEN
        IF kernel_ = nullptr THEN {Throw(KernelMustBeSetForMinParams)}
        ELSE IF \/ has_value(dimensions_.block) \/ has_value(dimensions_.grid)
                \/ has_value(dimensions_.overall)
            THEN {Throw(ConflictingSpecifications)}
        ELSE IF dynamic_shared_memory_size_determiner_ # nullptr
            THEN {Ok(min_grid_params_for_max_occupancy_determiner(
                        kernel_, dynamic_shared_memory_size_determiner_))}
        ELSE {Ok(min_grid_params_for_max_occupancy_size(kernel_, dynamic_shared_memory_size_))}
    ELSE IF has_value(dimensions_.block) /\ has_value(dimensions_.overall) THEN
        {IF r.thrown # NoThrow THEN r
         ELSE Ok([block |-> value(dimensions_.block), grid |-> value(r.value)]) :
            r \in div_rounding_up_dims(value(dimensions_.overall), value(dimensions_.block))}
    ELSE IF has_value(dimensions_.grid) /\ has_value(dimensions_.overall) THEN
        {IF r.thrown # NoThrow THEN r
         ELSE Ok([block |-> value(r.value), grid |-> value(dimensions_.grid)]) :
            r \in div_rounding_up_dims(value(dimensions_.overall), value(dimensions_.grid))}
    ELSE IF has_value(dimensions_.grid) /\ has_value(dimensions_.block) THEN
        {Ok([block |-> value(dimensions_.block), grid |-> value(dimensions_.grid)])}
    ELSE {Throw(under_specified)}

\* get_composite_dimensions: validating unless the build defines NDEBUG
get_composite_dimensions ==
    IF NDEBUG THEN get_unvalidated_composite_dimensions
    ELSE {IF r.thrown # NoThrow THEN r
          ELSE IF validate_composite_dimensions(value(r.value)) # NoThrow
               THEN Throw(validate_composite_dimensions(value(r.value)))
          ELSE r :
            r \in get_unvalidated_composite_dimensions}

\* validate_kernel: the exceptions it can end with (NoThrow: it returns)
validate_kernel(kernel_ptr) ==
    LET shared == validate_compatibility_kernel(kernel_ptr, dynamic_shared_memory_size_)
        check(block_dims) ==
            FirstThrow(<<validate_block_dimension_compatibility_kernel(kernel_ptr, block_dims),
                         shared>>)
    IN  IF has_value(dimensions_.block) THEN {check(value(dimensions_.block))}
        ELSE IF has_value(dimensions_.grid) /\ has_value(dimensions_.overall)
            THEN {IF r.thrown # NoThrow THEN r.thrown ELSE check(value(r.value).block) :
                    r \in get_composite_dimensions}
        ELSE {shared}

\* validate_device: the exceptions it can end with (NoThrow: it returns)
validate_device(device_id) ==
    LET shared == validate_compatibility_device(Some(device_id), dynamic_shared_memory_size_)
        check(block_dims) ==
            FirstThrow(<<validate_block_dimension_compatibility_device(Some(device_id), block_dims),
                         shared>>)
    IN  IF has_value(dimensions_.block) THEN {check(value(dimensions_.block))}
        ELSE IF has_value(dimensions_.grid) /\ has_value(dimensions_.overall)
            THEN {IF r.thrown # NoThrow THEN r.thrown ELSE check(value(r.value).block) :
                    r \in get_composite_dimensions}
        ELSE {shared}

(***************************************************************************)
(* The calls.  A call that throws leaves `thrown` set and, having assigned *)
(* nothing before the throw, the builder as it was.  After a trap (SIGFPE) *)
(* there is no process left to make a call.                                *)
(***************************************************************************)
Alive == thrown # SIGFPE

\* the call of f throws e before its first assignment
Throws(f, e) ==
    /\ called' = f
    /\ thrown' = e
    /\ returned' = nullopt
    /\ UNCHANGED <<builder, NDEBUG, rtc>>

\* the call of f returns, and returns no launch configuration
Returns(f) ==
    /\ called' = f
    /\ thrown' = NoThrow
    /\ returned' = nullopt
    /\ UNCHANGED <<NDEBUG, rtc>>

\* dimensions(composite_dims)
dimensions(composite_dims) ==
    /\ Alive
    /\ LET e == IF NDEBUG THEN NoThrow ELSE validate_composite_dimensions(composite_dims)
       IN  IF e # NoThrow THEN Throws("dimensions", e)
           ELSE /\ dimensions_' = [block   |-> Some(composite_dims.block),
                                   grid    |-> Some(composite_dims.grid),
                                   overall |-> nullopt]
                /\ Returns("dimensions")
                /\ UNCHANGED <<thread_block_cooperation, dynamic_shared_memory_size_determiner_,
                               dynamic_shared_memory_size_, kernel_, device_,
                               saturate_with_active_blocks_, use_min_params_for_max_occupancy_>>

\* a plausible slip: overall is kept although the block changes
block_dimensions_keeping_overall(dims) ==
    /\ Alive
    /\ LET e == IF NDEBUG THEN NoThrow ELSE validate_block_dimensions(dims)
       IN  IF e # NoThrow THEN Throws("block_dimensions", e)
           ELSE /\ dimensions_' = [dimensions_ EXCEPT !.block = Some(dims)]
                /\ Returns("block_dimensions")
                /\ UNCHANGED <<thread_block_cooperation, dynamic_shared_memory_size_determiner_,
                               dynamic_shared_memory_size_, kernel_, device_,
                               saturate_with_active_blocks_, use_min_params_for_max_occupancy_>>

\* block_dimensions(dims); block_dimensions(x, y, z) and block_size(size) pass it a triple
block_dimensions(dims) ==
    /\ Alive
    /\ LET e == IF NDEBUG THEN NoThrow ELSE validate_block_dimensions(dims)
       IN  IF e # NoThrow THEN Throws("block_dimensions", e)
           ELSE /\ dimensions_' = [dimensions_ EXCEPT
                                    !.block = Some(dims),
                                    !.overall = IF has_value(dimensions_.grid) THEN nullopt ELSE @]
                /\ Returns("block_dimensions")
                /\ UNCHANGED <<thread_block_cooperation, dynamic_shared_memory_size_determiner_,
                               dynamic_shared_memory_size_, kernel_, device_,
                               saturate_with_active_blocks_, use_min_params_for_max_occupancy_>>

\* a plausible slip: overall is kept although the block changes
use_maximum_linear_block_keeping_overall ==
    /\ Alive
    /\ IF kernel_ = nullptr /\ ~has_value(device_)
       THEN Throws("use_maximum_linear_block", NoDeviceOrKernel)
       ELSE LET max_size == IF kernel_ # nullptr
                            THEN kernel_maximum_threads_per_block(kernel_)
                            ELSE device_maximum_threads_per_block(value(device_))
            IN  /\ dimensions_' = [dimensions_ EXCEPT !.block = Some(<<max_size, 1, 1>>)]
                /\ Returns("use_maximum_linear_block")
                /\ UNCHANGED <<thread_block_cooperation, dynamic_shared_memory_size_determiner_,
                               dynamic_shared_memory_size_, kernel_, device_,
                               saturate_with_active_blocks_, use_min_params_for_max_occupancy_>>

\* a plausible slip: the device is asked before the kernel
use_maximum_linear_block_device_first ==
    /\ Alive
    /\ IF kernel_ = nullptr /\ ~has_value(device_)
       THEN Throws("use_maximum_linear_block", NoDeviceOrKernel)
       ELSE LET max_size == IF has_value(device_)
                            THEN device_maximum_threads_per_block(value(device_))
                            ELSE kernel_maximum_threads_per_block(kernel_)
            IN  /\ dimensions_' = [dimensions_ EXCEPT
                                    !.overall = IF has_value(dimensions_.grid) /\ has_value(@)
                                                THEN nullopt ELSE @,
                                    !.block = Some(<<max_size, 1, 1>>)]
                /\ Returns("use_maximum_linear_block")
                /\ UNCHANGED <<thread_block_cooperation, dynamic_shared_memory_size_determiner_,
                               dynamic_shared_memory_size_, kernel_, device_,
                               saturate_with_active_blocks_, use_min_params_for_max_occupancy_>>

\* use_maximum_linear_block()
use_maximum_linear_block ==
    /\ Alive
    /\ IF kernel_ = nullptr /\ ~has_value(device_)
       THEN Throws("use_maximum_linear_block", NoDeviceOrKernel)
       ELSE LET max_size == IF kernel_ # nullptr
                            THEN kernel_maximum_threads_per_block(kernel_)
                            ELSE device_maximum_threads_per_block(value(device_))
            IN  /\ dimensions_' = [dimensions_ EXCEPT
                                    !.overall = IF has_value(dimensions_.grid) /\ has_value(@)
                                                THEN nullopt ELSE @,
                                    !.block = Some(<<max_size, 1, 1>>)]
                /\ Returns("use_maximum_linear_block")
                /\ UNCHANGED <<thread_block_cooperation, dynamic_shared_memory_size_determiner_,
                               dynamic_shared_memory_size_, kernel_, device_,
                               saturate_with_active_blocks_, use_min_params_for_max_occupancy_>>

\* a plausible slip: the saturate flag is cleared before the validation
grid_dimensions_clearing_first(dims) ==
    /\ Alive
    /\ saturate_with_active_blocks_' = FALSE
    /\ LET e == IF NDEBUG THEN NoThrow ELSE validate_grid_dimensions(dims)
       IN  IF e # NoThrow
           THEN /\ called' = "grid_dimensions" /\ thrown' = e /\ returned' = nullopt
                /\ UNCHANGED <<dimensions_, NDEBUG, rtc>>
           ELSE /\ dimensions_' = [dimensions_ EXCEPT
                                    !.overall = IF has_value(dimensions_.block) THEN nullopt ELSE @,
                                    !.grid = Some(dims)]
                /\ Returns("grid_dimensions")
    /\ UNCHANGED <<thread_block_cooperation, dynamic_shared_memory_size_determiner_,
                   dynamic_shared_memory_size_, kernel_, device_,
                   use_min_params_for_max_occupancy_>>

\* grid_dimensions(dims); grid_dimensions(x, y, z), grid_size and num_blocks pass it a triple
grid_dimensions(dims) ==
    /\ Alive
    /\ LET e == IF NDEBUG THEN NoThrow ELSE validate_grid_dimensions(dims)
       IN  IF e # NoThrow THEN Throws("grid_dimensions", e)
           ELSE /\ dimensions_' = [dimensions_ EXCEPT
                                    !.overall = IF has_value(dimensions_.block) THEN nullopt ELSE @,
                                    !.grid = Some(dims)]
                /\ saturate_with_active_blocks_' = FALSE
                /\ Returns("grid_dimensions")
                /\ UNCHANGED <<thread_block_cooperation, dynamic_shared_memory_size_determiner_,
                               dynamic_shared_memory_size_, kernel_, device_,
                               use_min_params_for_max_occupancy_>>

\* a plausible slip: the saturate flag is left as it was
overall_dimensions_keeping_saturate(dims) ==
    /\ Alive
    /\ LET e == IF NDEBUG THEN NoThrow ELSE validate_overall_dimensions(dims)
       IN  IF e # NoThrow THEN Throws("overall_dimensions", e)
           ELSE /\ dimensions_' = [dimensions_ EXCEPT !.overall = Some(dims)]
                /\ Returns("overall_dimensions")
                /\ UNCHANGED <<thread_block_cooperation, dynamic_shared_memory_size_determiner_,
                               dynamic_shared_memory_size_, kernel_, device_,
                               saturate_with_active_blocks_,
                               use_min_params_for_max_occupancy_>>

\* overall_dimensions(dims); overall_dimensions(x, y, z) and overall_size pass it a triple
overall_dimensions(dims) ==
    /\ Alive
    /\ LET e == IF NDEBUG THEN NoThrow ELSE validate_overall_dimensions(dims)
       IN  IF e # NoThrow THEN Throws("overall_dimensions", e)
           ELSE /\ dimensions_' = [dimensions_ EXCEPT !.overall = Some(dims)]
                /\ saturate_with_active_blocks_' = FALSE
                /\ Returns("overall_dimensions")
                /\ UNCHANGED <<thread_block_cooperation, dynamic_shared_memory_size_determiner_,
                               dynamic_shared_memory_size_, kernel_, device_,
                               use_min_params_for_max_occupancy_>>

\* block_cooperation(cooperation); blocks_may_cooperate and blocks_dont_cooperate pass it a flag
block_cooperation(cooperation) ==
    /\ Alive
    /\ thread_block_cooperation' = cooperation
    /\ Returns("block_cooperation")
    /\ UNCHANGED <<dimensions_, dynamic_shared_memory_size_determiner_,
                   dynamic_shared_memory_size_, kernel_, device_,
                   saturate_with_active_blocks_, use_min_params_for_max_occupancy_>>

\* dynamic_shared_memory_size(shared_mem_size_determiner), also dynamic_shared_memory
dynamic_shared_memory_size_determiner(shared_mem_size_determiner) ==
    /\ Alive
    /\ dynamic_shared_memory_size_determiner_' = shared_mem_size_determiner
    /\ Returns("dynamic_shared_memory_size_determiner")
    /\ UNCHANGED <<dimensions_, thread_block_cooperation,
                   dynamic_shared_memory_size_, kernel_, device_,
                   saturate_with_active_blocks_, use_min_params_for_max_occupancy_>>

\* a plausible slip: the determiner set earlier is left in place
dynamic_shared_memory_size_keeping_determiner(size) ==
    /\ Alive
    /\ LET e == IF NDEBUG THEN NoThrow ELSE validate_dynamic_shared_memory_size(size)
       IN  IF e # NoThrow THEN Throws("dynamic_shared_memory_size", e)
           ELSE /\ dynamic_shared_memory_size_' = size
                /\ Returns("dynamic_shared_memory_size")
                /\ UNCHANGED <<dimensions_, thread_block_cooperation, kernel_, device_,
                               dynamic_shared_memory_size_determiner_,
                               saturate_with_active_blocks_, use_min_params_for_max_occupancy_>>

\* dynamic_shared_memory_size(size), also dynamic_shared_memory and no_dynamic_shared_memory
dynamic_shared_memory_size(size) ==
    /\ Alive
    /\ LET e == IF NDEBUG THEN NoThrow ELSE validate_dynamic_shared_memory_size(size)
       IN  IF e # NoThrow THEN Throws("dynamic_shared_memory_size", e)
           ELSE /\ dynamic_shared_memory_size_' = size
                /\ dynamic_shared_memory_size_determiner_' = nullptr
                /\ Returns("dynamic_shared_memory_size")
                /\ UNCHANGED <<dimensions_, thread_block_cooperation, kernel_, device_,
                               saturate_with_active_blocks_, use_min_params_for_max_occupancy_>>

\* kernel(wrapped_kernel_ptr)
kernel(wrapped_kernel_ptr) ==
    /\ Alive
    /\ \E e \in (IF NDEBUG THEN {NoThrow} ELSE validate_kernel(wrapped_kernel_ptr)) :
           IF e # NoThrow THEN Throws("kernel", e)
           ELSE /\ kernel_' = wrapped_kernel_ptr
                /\ Returns("kernel")
                /\ UNCHANGED <<dimensions_, thread_block_cooperation,
                               dynamic_shared_memory_size_determiner_,
                               dynamic_shared_memory_size_, device_,
                               saturate_with_active_blocks_, use_min_params_for_max_occupancy_>>

\* a plausible slip: the derivation modes are left with the kernel
no_kernel_clearing_modes ==
    /\ Alive
    /\ kernel_' = nullptr
    /\ saturate_with_active_blocks_' = FALSE
    /\ use_min_params_for_max_occupancy_' = FALSE
    /\ Returns("no_kernel")
    /\ UNCHANGED <<dimensions_, thread_block_cooperation,
                   dynamic_shared_memory_size_determiner_,
                   dynamic_shared_memory_size_, device_>>

\* kernel_independent() and no_kernel()
no_kernel ==
    /\ Alive
    /\ kernel_' = nullptr
    /\ Returns("no_kernel")
    /\ UNCHANGED <<dimensions_, thread_block_cooperation,
                   dynamic_shared_memory_size_determiner_,
                   dynamic_shared_memory_size_, device_,
                   saturate_with_active_blocks_, use_min_params_for_max_occupancy_>>

\* a plausible slip: the block dimensions are checked before the kernel
saturate_with_active_blocks_block_first ==
    /\ Alive
    /\ IF ~has_value(dimensions_.block)
       THEN Throws("saturate_with_active_blocks", BlockMustBeKnown)
       ELSE IF kernel_ = nullptr THEN Throws("saturate_with_active_blocks", KernelMustBeSet)
       ELSE /\ dimensions_' = [dimensions_ EXCEPT !.grid = nullopt, !.overall = nullopt]
            /\ use_min_params_for_max_occupancy_' = FALSE
            /\ saturate_with_active_blocks_' = TRUE
            /\ Returns("saturate_with_active_blocks")
            /\ UNCHANGED <<thread_block_cooperation, dynamic_shared_memory_size_determiner_,
                           dynamic_shared_memory_size_, kernel_, device_>>

\* a plausible slip: an overall value set earlier is left in place
saturate_with_active_blocks_keeping_overall ==
    /\ Alive
    /\ IF kernel_ = nullptr THEN Throws("saturate_with_active_blocks", KernelMustBeSet)
       ELSE IF ~has_value(dimensions_.block) THEN Throws("saturate_with_active_blocks", BlockMustBeKnown)
       ELSE /\ dimensions_' = [dimensions_ EXCEPT !.grid = nullopt]
            /\ use_min_params_for_max_occupancy_' = FALSE
            /\ saturate_with_active_blocks_' = TRUE
            /\ Returns("saturate_with_active_blocks")
            /\ UNCHANGED <<thread_block_cooperation, dynamic_shared_memory_size_determiner_,
                           dynamic_shared_memory_size_, kernel_, device_>>

\* saturate_with_active_blocks()
saturate_with_active_blocks ==
    /\ Alive
    /\ IF kernel_ = nullptr THEN Throws("saturate_with_active_blocks", KernelMustBeSet)
       ELSE IF ~has_value(dimensions_.block) THEN Throws("saturate_with_active_blocks", BlockMustBeKnown)
       ELSE /\ dimensions_' = [dimensions_ EXCEPT !.grid = nullopt, !.overall = nullopt]
            /\ use_min_params_for_max_occupancy_' = FALSE
            /\ saturate_with_active_blocks_' = TRUE
            /\ Returns("saturate_with_active_blocks")
            /\ UNCHANGED <<thread_block_cooperation, dynamic_shared_memory_size_determiner_,
                           dynamic_shared_memory_size_, kernel_, device_>>

\* a plausible slip: the other mode's flag is left as it was
min_params_for_max_occupancy_keeping_saturate ==
    /\ Alive
    /\ IF kernel_ = nullptr THEN Throws("min_params_for_max_occupancy", KernelMustBeSet)
       ELSE /\ dimensions_' = [block |-> nullopt, grid |-> nullopt, overall |-> nullopt]
            /\ use_min_params_for_max_occupancy_' = TRUE
            /\ Returns("min_params_for_max_occupancy")
            /\ UNCHANGED <<thread_block_cooperation, dynamic_shared_memory_size_determiner_,
                           dynamic_shared_memory_size_, kernel_, device_,
                           saturate_with_active_blocks_>>

\* a plausible slip: the block dimensions set earlier are left in place
min_params_for_max_occupancy_keeping_block ==
    /\ Alive
    /\ IF kernel_ = nullptr THEN Throws("min_params_for_max_occupancy", KernelMustBeSet)
       ELSE /\ dimensions_' = [block |-> dimensions_.block, grid |-> nullopt, overall |-> nullopt]
            /\ use_min_params_for_max_occupancy_' = TRUE
            /\ saturate_with_active_blocks_' = FALSE
            /\ Returns("min_params_for_max_occupancy")
            /\ UNCHANGED <<thread_block_cooperation, dynamic_shared_memory_size_determiner_,
                           dynamic_shared_memory_size_, kernel_, device_>>

\* min_params_for_max_occupancy()
min_params_for_max_occupancy ==
    /\ Alive
    /\ IF kernel_ = nullptr THEN Throws("min_params_for_max_occupancy", KernelMustBeSet)
       ELSE /\ dimensions_' = [block |-> nullopt, grid |-> nullopt, overall |-> nullopt]
            /\ use_min_params_for_max_occupancy_' = TRUE
            /\ saturate_with_active_blocks_' = FALSE
            /\ Returns("min_params_for_max_occupancy")
            /\ UNCHANGED <<thread_block_cooperation, dynamic_shared_memory_size_determiner_,
                           dynamic_shared_memory_size_, kernel_, device_>>

\* a plausible slip: build stores the dimensions it resolved
build_resolving ==
    /\ Alive
    /\ \E r \in get_composite_dimensions :
           IF r.thrown # NoThrow THEN Throws("build", r.thrown)
           ELSE /\ called' = "build"
                /\ thrown' = NoThrow
                /\ returned' = Some([dimensions |-> value(r.value),
                                      dynamic_shared_memory_size |->
                                          get_dynamic_shared_memory_size(value(r.value).block),
                                      block_cooperation |-> thread_block_cooperation])
                /\ dimensions_' = [dimensions_ EXCEPT !.block = Some(value(r.value).block),
                                                      !.grid = Some(value(r.value).grid)]
                /\ UNCHANGED <<thread_block_cooperation, dynamic_shared_memory_size_determiner_,
                               dynamic_shared_memory_size_, kernel_, device_,
                               saturate_with_active_blocks_, use_min_params_for_max_occupancy_,
                               NDEBUG, rtc>>

\* build()
build ==
    /\ Alive
    /\ \E r \in get_composite_dimensions :
           IF r.thrown # NoThrow THEN Throws("build", r.thrown)
           ELSE /\ called' = "build"
                /\ thrown' = NoThrow
                /\ returned' = Some([dimensions |-> value(r.value),
                                      dynamic_shared_memory_size |->
                                          get_dynamic_shared_memory_size(value(r.value).block),
                                      block_cooperation |-> thread_block_cooperation])
                /\ UNCHANGED <<builder, NDEBUG, rtc>>

\* a plausible slip: overall is assigned only when it is already present
resolve_dimensions_not_filling ==
    /\ Alive
    /\ \E r \in get_composite_dimensions :
           IF r.thrown # NoThrow THEN Throws("resolve_dimensions", r.thrown)
           ELSE LET cd == value(r.value)
                IN  /\ dimensions_' = [block   |-> Some(cd.block),
                                        grid    |-> Some(cd.grid),
                                        overall |-> dimensions_.overall]
                    /\ Returns("resolve_dimensions")
                    /\ UNCHANGED <<thread_block_cooperation,
                                   dynamic_shared_memory_size_determiner_,
                                   dynamic_shared_memory_size_, kernel_, device_,
                                   saturate_with_active_blocks_,
                                   use_min_params_for_max_occupancy_>>

\* resolve_dimensions()
resolve_dimensions ==
    /\ Alive
    /\ \E r \in get_composite_dimensions :
           IF r.thrown # NoThrow THEN Throws("resolve_dimensions", r.thrown)
           ELSE LET cd == value(r.value)
                IN  /\ dimensions_' = [block   |-> Some(cd.block),
                                        grid    |-> Some(cd.grid),
                                        overall |-> IF has_value(dimensions_.overall)
                                                    THEN dimensions_.overall
                                                    ELSE Some(DimsProduct(cd.grid, cd.block))]
                    /\ Returns("resolve_dimensions")
                    /\ UNCHANGED <<thread_block_cooperation,
                                   dynamic_shared_memory_size_determiner_,
                                   dynamic_shared_memory_size_, kernel_, device_,
                                   saturate_with_active_blocks_,
                                   use_min_params_for_max_occupancy_>>

\* Binding a device: validate_device(device_id), then device_ = device_id.
bind_device(device_id) ==
    /\ Alive
    /\ \E e \in (IF NDEBUG THEN {NoThrow} ELSE validate_device(device_id)) :
           IF e # NoThrow THEN Throws("bind_device", e)
           ELSE /\ device_' = Some(device_id)
                /\ Returns("bind_device")
                /\ UNCHANGED <<dimensions_, thread_block_cooperation,
                               dynamic_shared_memory_size_determiner_,
                               dynamic_shared_memory_size_, kernel_,
                               saturate_with_active_blocks_, use_min_params_for_max_occupancy_>>

(***************************************************************************)
(* The calls on a compilation_options_t.  Its fields are public: a caller  *)
(* assigns them, or calls a shorthand method.                              *)
(***************************************************************************)
\* the fields counted against MaxOptionsSet
CountedFields ==
    (DOMAIN DefaultOptions)
        \ {"targets_", "language_dialect", "use_fast_math", "flush_denormal_floats_to_zero",
            "use_precise_square_root", "use_precise_division", "use_fused_multiply_add"}

WithinMaxOptionsSet(options) ==
    Cardinality({f \in CountedFields : options[f] # DefaultOptions[f]}) <= MaxOptionsSet

\* the call of f changes the options to new_opts and returns
OptionsCall(f, new_opts) ==
    /\ WithinMaxOptionsSet(new_opts)
    /\ opts' = new_opts
    /\ marshalled' = nullopt
    /\ called' = f
    /\ thrown' = NoThrow
    /\ returned' = nullopt
    /\ UNCHANGED <<builder, NDEBUG>>

\* opts.field = v
assign(field, v) == OptionsCall("assign", [opts EXCEPT ![field] = v])

\* add_target(compute_capability)
add_target(compute_capability) ==
    OptionsCall("add_target", [opts EXCEPT !.targets_ = {compute_capability}])

\* set_target(compute_capability), which calls add_target; set_target(device)
\* passes it the device's compute capability
set_target(compute_capability) ==
    OptionsCall("set_target", [opts EXCEPT !.targets_ = {compute_capability}])

\* set_language_dialect(dialect)
set_language_dialect(dialect) ==
    OptionsCall("set_language_dialect",
        [opts EXCEPT !.specify_language_dialect = TRUE, !.language_dialect = dialect])

\* clear_language_dialect()
clear_language_dialect ==
    OptionsCall("clear_language_dialect", [opts EXCEPT !.specify_language_dialect = FALSE])

\* set_language_dialect(dialect_name), for a C string or a std::string
set_language_dialect_name(dialect_name) ==
    IF dialect_name = ""
    THEN OptionsCall("set_language_dialect_name",
            [opts EXCEPT !.specify_language_dialect = FALSE])
    ELSE LET dialect == cpp_dialect_from_name(dialect_name)
         IN  IF dialect.thrown # NoThrow
             THEN /\ called' = "set_language_dialect_name"
                  /\ thrown' = dialect.thrown
                  /\ returned' = nullopt
                  /\ marshalled' = nullopt
                  /\ UNCHANGED <<builder, NDEBUG, opts>>
             ELSE OptionsCall("set_language_dialect_name",
                    [opts EXCEPT !.specify_language_dialect = TRUE,
                                 !.language_dialect = value(dialect.value)])

\* error_handling_overrides[error_number] = method
override_error(f, error_number, method) ==
    OptionsCall(f, [opts EXCEPT !.error_handling_overrides =
        [n \in (DOMAIN @) \cup {error_number} |-> IF n = error_number THEN method ELSE @[n]]])

\* suppress_error(error_number)
suppress_error(error_number) == override_error("suppress_error", error_number, suppress)

\* treat_as_error(error_number)
treat_as_error(error_number) == override_error("treat_as_error", error_number, raise_error)

\* warn_about(error_number)
warn_about(error_number) == override_error("warn_about", error_number, warn)

\* process(opts, marshalled, delimiter, need_delimited_after_every_option) on
\* an empty target; marshal() passes it optend and true, render() ' ' and false
process_call(delimiter, need_delimited_after_every_option) ==
    /\ \E received \in process(opts, delimiter, need_delimited_after_every_option) :
            marshalled' = Some([received |-> received,
                                delimiter |-> delimiter,
                                need_delimited_after_every_option |->
                                    need_delimited_after_every_option])
    /\ called' = "process"
    /\ thrown' = NoThrow
    /\ returned' = nullopt
    /\ UNCHANGED <<builder, NDEBUG, opts>>

(***************************************************************************)
(* Specifications                                                          *)
(***************************************************************************)
SetDimensions == \E cd \in CompositeDimsIn : dimensions(cd)
SetBlockDimensions == \E dims \in BlockDimsIn : block_dimensions(dims)
SetGridDimensions == \E dims \in GridDimsIn : grid_dimensions(dims)
SetOverallDimensions == \E dims \in OverallDimsIn : overall_dimensions(dims)
SetBlockCooperation == \E b \in BOOLEAN : block_cooperation(b)
SetSharedMemoryDeterminer ==
    \E f \in Determiners \cup {nullptr} : dynamic_shared_memory_size_determiner(f)
SetSharedMemorySize == \E size \in SharedMemorySizesIn : dynamic_shared_memory_size(size)
SetKernel == \E k \in Kernels : kernel(k)
SetDevice == \E d \in DeviceIds : bind_device(d)

\* the chaining mutators of the class, and build()
Next ==
    \/ SetBlockDimensions
    \/ SetGridDimensions
    \/ SetOverallDimensions
    \/ SetDimensions
    \/ use_maximum_linear_block
    \/ SetBlockCooperation
    \/ SetSharedMemoryDeterminer
    \/ SetSharedMemorySize
    \/ SetKernel
    \/ no_kernel
    \/ saturate_with_active_blocks
    \/ min_params_for_max_occupancy
    \/ build

Spec == Init /\ [][Next]_vars

\* with resolve_dimensions(), which returns nothing and is no chaining mutator
SpecResolve == Init /\ [][Next \/ resolve_dimensions]_vars

\* with a device bound by a mutator
SpecDevice == Init /\ [][Next \/ SetDevice]_vars

\* the program built with or without NDEBUG
SpecAnyBuild == InitAnyBuild /\ [][Next]_vars

\* The values assigned to the fields of the compilation options: the first of
\* the single-token toggles and one that is on by default, the toggle after the
\* fast-math ones, the fast-math ones, a value, and a container of each kind.
AssignOption ==
    \/ \E field \in {"generate_relocatable_code", "display_error_numbers",
                      "optimize_device_code_in_debug_mode",
                      "use_fast_math", "flush_denormal_floats_to_zero",
                      "use_precise_square_root", "use_precise_division",
                      "use_fused_multiply_add"} :
            \E b \in BOOLEAN : assign(field, b)
    \/ \E v \in {"", "-v"} : assign("ptxas", v)
    \/ \E v \in {{}, {"A"}} : assign("undefines", v)
    \/ \E v \in {EmptyMap, [name \in {"C"} |-> "1"]} : assign("valued_defines", v)
    \/ \E v \in {<<>>, <<"--extra">>} : assign("extra_options", v)
AddTarget == \E c \in ComputeCapabilities : add_target(c)
SetTarget == \E c \in ComputeCapabilities : set_target(c)
SetLanguageDialect == \E d \in {cpp_dialect_last} : set_language_dialect(d)
SetLanguageDialectName == \E name \in {"", "c++17", "c++20"} : set_language_dialect_name(name)
SuppressError == \E n \in {1} : suppress_error(n)
TreatAsError == \E n \in {1} : treat_as_error(n)
WarnAbout == \E n \in {1} : warn_about(n)
\* the delimiters: detail_::optend, and ' '
optend == "optend"
Process == \E call \in {<<optend, TRUE>>, <<" ", FALSE>>} : process_call(call[1], call[2])

\* the calls on a compilation_options_t, and process()
NextOptions ==
    \/ AssignOption
    \/ AddTarget
    \/ SetTarget
    \/ SetLanguageDialect
    \/ clear_language_dialect
    \/ SetLanguageDialectName
    \/ SuppressError
    \/ TreatAsError
    \/ WarnAbout
    \/ Process

SpecOptions == Init /\ [][NextOptions]_vars

(***************************************************************************)
(* Properties                                                              *)
(***************************************************************************)
block_ == dimensions_.block
grid_ == dimensions_.grid
overall_ == dimensions_.overall

\* no derivation mode is active
NoMode == ~saturate_with_active_blocks_ /\ ~use_min_params_for_max_occupancy_

\* every component is at least 1
Positive(dims) == \A i \in 1..3 : dims[i] >= 1

\* dividend / divisor rounded up, in the integers
Ceiling(dividend, divisor) == (dividend + divisor - 1) \div divisor

CeilingDims(overall, by) ==
    <<Ceiling(overall[1], by[1]), Ceiling(overall[2], by[2]), Ceiling(overall[3], by[3])>>

\* the result fits dimension_t: the caller's obligation towards div_rounding_up
FitsDimension(dims) == \A i \in 1..3 : dims[i] < DimensionLimit

\* build() was the last call, and it returned a launch configuration
Built == called = "build" /\ thrown = NoThrow /\ has_value(returned)

\* the builder as the constructor leaves it, but for block, grid and overall
OnlyDimensionsSet ==
    /\ kernel_ = nullptr /\ ~has_value(device_) /\ NoMode
    /\ ~thread_block_cooperation
    /\ dynamic_shared_memory_size_ = 0
    /\ dynamic_shared_memory_size_determiner_ = nullptr

\* C1: after block and overall dimensions (all components >= 1) are set on an
\* empty builder, build returns the block as set and, on each axis, the grid
\* overall / block rounded up.  Stated for the quotients dimension_t can hold.
C1_GridIsOverallByBlockRoundedUp ==
    ( /\ called = "build"
      /\ OnlyDimensionsSet
      /\ has_value(block_) /\ has_value(overall_) /\ ~has_value(grid_)
      /\ Positive(value(block_)) /\ Positive(value(overall_))
      /\ FitsDimension(CeilingDims(value(overall_), value(block_))) )
    => /\ Built
       /\ value(returned).dimensions.block = value(block_)
       /\ value(returned).dimensions.grid = CeilingDims(value(overall_), value(block_))

\* C2: when only grid and overall dimensions (all components >= 1) are set,
\* build returns the grid as set and, on each axis, the block overall / grid
\* rounded up.  Stated for the quotients dimension_t can hold.
C2_BlockIsOverallByGridRoundedUp ==
    ( /\ called = "build"
      /\ OnlyDimensionsSet
      /\ has_value(grid_) /\ has_value(overall_) /\ ~has_value(block_)
      /\ Positive(value(grid_)) /\ Positive(value(overall_))
      /\ FitsDimension(CeilingDims(value(overall_), value(grid_))) )
    => /\ Built
       /\ value(returned).dimensions.grid = value(grid_)
       /\ value(returned).dimensions.block = CeilingDims(value(overall_), value(grid_))

\* C3: with block and grid set, overall absent and no derivation mode,
\* resolve_dimensions() keeps block and grid as set and fills overall with
\* grid * block, and build() returns block and grid as set; after any
\* resolve_dimensions() that returns, overall is present.
C3_ResolutionAdoptsBlockAndGrid ==
    /\ [](called = "resolve_dimensions" /\ thrown = NoThrow
            => has_value(block_) /\ has_value(grid_) /\ has_value(overall_))
    /\ [][ ( /\ has_value(block_) /\ has_value(grid_) /\ ~has_value(overall_)
             /\ NoMode )
           => /\ called' = "resolve_dimensions"
                 => /\ thrown' = NoThrow
                    /\ dimensions_' = [block   |-> block_,
                                       grid    |-> grid_,
                                       overall |-> Some(DimsProduct(value(grid_), value(block_)))]
              /\ called' = "build"
                 => /\ thrown' = NoThrow
                    /\ value(returned').dimensions =
                            [block |-> value(block_), grid |-> value(grid_)] ]_vars

\* C3's case: resolve_dimensions() returned having filled in an overall value
\* that no caller passed
C3_Witness ==
    /\ called = "resolve_dimensions" /\ thrown = NoThrow /\ NoMode
    /\ has_value(overall_)
    /\ value(overall_) \notin OverallDimsIn
    /\ value(overall_) = DimsProduct(value(grid_), value(block_))

\* C4: when overall is an exact multiple of block on every axis (components
\* >= 1), the grid build resolves from block and overall has
\* grid * block = overall on every axis.  Stated for the quotients
\* dimension_t can hold.
C4_ExactMultipleDoesNotOvershoot ==
    ( /\ Built
      /\ NoMode
      /\ has_value(block_) /\ has_value(overall_)
      /\ Positive(value(block_)) /\ Positive(value(overall_))
      /\ \A i \in 1..3 : value(overall_)[i] % value(block_)[i] = 0
      /\ FitsDimension(CeilingDims(value(overall_), value(block_))) )
    => DimsProduct(value(returned).dimensions.grid, value(block_)) = value(overall_)

\* C5 as stated: with block and grid set (components >= 1),
\* overall_dimensions(dims) returns when dims = grid * block on every axis, and
\* throws invalid_argument otherwise.
C5_OverallChecked ==
    [][ ( /\ called' = "overall_dimensions"
          /\ has_value(block_) /\ has_value(grid_)
          /\ Positive(value(block_)) /\ Positive(value(grid_)) )
        => \A dims \in OverallDimsIn :
            overall_dimensions(dims)
            => IF DimsProduct(value(grid_), value(block_)) = dims
               THEN thrown' = NoThrow /\ overall_' = Some(dims)
               ELSE thrown'.type = "invalid_argument" ]_vars

\* C5 as amended: in a build without NDEBUG, with block and grid set,
\* overall_dimensions(dims) returns, having set overall, when dims = grid * block
\* on every axis, and throws invalid_argument, leaving the builder as it was,
\* otherwise; in a build with NDEBUG it always returns, having set overall.
C5_OverallCheckedWhenValidating ==
    [][ ( /\ called' = "overall_dimensions"
          /\ has_value(block_) /\ has_value(grid_) )
        => \A dims \in OverallDimsIn :
            overall_dimensions(dims)
            => IF NDEBUG \/ DimsProduct(value(grid_), value(block_)) = dims
               THEN thrown' = NoThrow /\ overall_' = Some(dims)
               ELSE thrown'.type = "invalid_argument" /\ UNCHANGED builder ]_vars

\* C5's case: a validating overall_dimensions threw, with block and grid set
C5_Witness ==
    /\ ~NDEBUG
    /\ called = "overall_dimensions"
    /\ thrown.type = "invalid_argument"
    /\ has_value(block_) /\ has_value(grid_)

C7_SaturatePreconditions ==
    [][ called' = "saturate_with_active_blocks"
        => IF kernel_ = nullptr
           THEN thrown' = KernelMustBeSet /\ thrown'.type = "logic_error"
           ELSE IF ~has_value(block_)
           THEN /\ thrown' = BlockMustBeKnown /\ thrown'.type = "logic_error"
                /\ thrown' # KernelMustBeSet
           ELSE thrown' = NoThrow ]_vars

\* C7's case: neither a kernel nor block dimensions, and the kernel is reported
C7_Witness ==
    /\ called = "saturate_with_active_blocks"
    /\ kernel_ = nullptr /\ ~has_value(block_)
    /\ thrown = KernelMustBeSet

\* C8: with a kernel bound, block dimensions set and the saturate mode enabled,
\* build returns the block as set and the one-dimensional grid
\* (active blocks per multiprocessor, for the block volume and the resolved
\* shared memory size) * (multiprocessor count of the device).
C8_SaturatedGrid ==
    ( /\ called = "build"
      /\ saturate_with_active_blocks_ /\ ~use_min_params_for_max_occupancy_
      /\ kernel_ # nullptr
      /\ has_value(block_) /\ ~has_value(grid_) /\ ~has_value(overall_)
      /\ Positive(value(block_)) )
    => /\ Built
       /\ value(returned).dimensions.block = value(block_)
       /\ \E d \in DeviceIds :
            value(returned).dimensions.grid =
                Linear(max_active_blocks_per_multiprocessor(
                            kernel_, volume(value(block_)),
                            get_dynamic_shared_memory_size(value(block_)))
                       * multiprocessor_count(d))

\* C9: the two derivation modes are never both active; after an enabling call
\* returns, the mode it enables is the active one; build never throws the
\* exception for both modes.
C9_ModesExclusive ==
    /\ ~(saturate_with_active_blocks_ /\ use_min_params_for_max_occupancy_)
    /\ (called = "saturate_with_active_blocks" /\ thrown = NoThrow)
        => saturate_with_active_blocks_ /\ ~use_min_params_for_max_occupancy_
    /\ (called = "min_params_for_max_occupancy" /\ thrown = NoThrow)
        => use_min_params_for_max_occupancy_ /\ ~saturate_with_active_blocks_
    /\ called = "build" => thrown # BothModes

\* C9's case: the saturate mode has just been enabled
C9_Witness ==
    /\ called = "saturate_with_active_blocks" /\ thrown = NoThrow
    /\ saturate_with_active_blocks_ /\ ~use_min_params_for_max_occupancy_

\* C10: with no derivation mode and fewer than two of block, grid and overall
\* present, build throws a logic_error and returns nothing; the exception for
\* only the block differs from the one for neither block nor grid and from the
\* one for only the grid.
C10_UnderSpecified ==
    ( /\ called = "build"
      /\ NoMode
      /\ Cardinality({f \in {"block", "grid", "overall"} : has_value(dimensions_[f])}) < 2 )
    => /\ thrown.type = "logic_error"
       /\ returned = nullopt
       /\ thrown = IF has_value(block_) THEN OnlyBlock
                   ELSE IF has_value(grid_) THEN GridWithoutBlock
                   ELSE NeitherBlockNorGrid
       /\ has_value(block_) => thrown \notin {NeitherBlockNorGrid, GridWithoutBlock}

\* C10's case: build threw with only the block dimensions set
C10_Witness ==
    /\ called = "build" /\ NoMode
    /\ has_value(block_) /\ ~has_value(grid_) /\ ~has_value(overall_)
    /\ thrown = OnlyBlock

\* C11: the dynamic shared memory size build returns is decided by the setter
\* called last.  The fixed-size setter, when it returns, clears the determiner;
\* the determiner setter installs its argument and keeps the fixed size; no other
\* call changes either; and build returns the determiner applied to the volume
\* of the resolved block when a determiner is installed, the fixed size otherwise.
C11_LastSharedMemorySetterDecides ==
    /\ [](Built =>
            value(returned).dynamic_shared_memory_size =
                IF dynamic_shared_memory_size_determiner_ # nullptr
                THEN determine_shared_memory(dynamic_shared_memory_size_determiner_,
                                             volume(value(returned).dimensions.block))
                ELSE dynamic_shared_memory_size_)
    /\ [][ /\ (called' = "dynamic_shared_memory_size" /\ thrown' = NoThrow)
                => dynamic_shared_memory_size_determiner_' = nullptr
           /\ called' = "dynamic_shared_memory_size_determiner"
                => /\ thrown' = NoThrow
                   /\ UNCHANGED dynamic_shared_memory_size_
                   /\ \A f \in Determiners \cup {nullptr} :
                        dynamic_shared_memory_size_determiner(f)
                        => dynamic_shared_memory_size_determiner_' = f
           /\ called' \notin {"dynamic_shared_memory_size", "dynamic_shared_memory_size_determiner"}
                => UNCHANGED <<dynamic_shared_memory_size_determiner_,
                               dynamic_shared_memory_size_>> ]_vars

\* C11's two cases: build returned the determiner's value although a fixed size
\* of 1 had been set before the determiner; and build returned the fixed size 1
\* set after a determiner, which would have given another value
C11_Witness ==
    /\ Built
    /\ dynamic_shared_memory_size_ = 1
    /\ dynamic_shared_memory_size_determiner_ # nullptr
    /\ volume(value(returned).dimensions.block) = 2
    /\ value(returned).dynamic_shared_memory_size = 4

\* the result of the occupancy query build makes in the min-occupancy mode
occupancy_query ==
    IF dynamic_shared_memory_size_determiner_ # nullptr
    THEN min_grid_params_for_max_occupancy_determiner(kernel_, dynamic_shared_memory_size_determiner_)
    ELSE min_grid_params_for_max_occupancy_size(kernel_, dynamic_shared_memory_size_)

\* C12: min_params_for_max_occupancy() throws a logic_error when no kernel is
\* set; when it returns, block, grid and overall are absent, its mode is active
\* and the saturate mode is not; and a build of the builder in that state
\* returns the block and grid of the kernel's occupancy query, made with the
\* determiner when one is installed and with the fixed size otherwise.
C12_MinParamsForMaxOccupancy ==
    /\ called = "min_params_for_max_occupancy"
        => IF kernel_ = nullptr
           THEN thrown.type = "logic_error"
           ELSE /\ thrown = NoThrow
                /\ ~has_value(block_) /\ ~has_value(grid_) /\ ~has_value(overall_)
                /\ use_min_params_for_max_occupancy_
                /\ ~saturate_with_active_blocks_
    /\ ( /\ called = "build"
         /\ use_min_params_for_max_occupancy_ /\ kernel_ # nullptr
         /\ ~has_value(block_) /\ ~has_value(grid_) /\ ~has_value(overall_) )
        => /\ Built
           /\ value(returned).dimensions = occupancy_query

\* C12's case: build in the min-occupancy mode, with a determiner installed,
\* returned the pair of the query made with the determiner
C12_Witness ==
    /\ Built
    /\ use_min_params_for_max_occupancy_
    /\ dynamic_shared_memory_size_determiner_ # nullptr
    /\ value(returned).dimensions =
            min_grid_params_for_max_occupancy_determiner(kernel_, dynamic_shared_memory_size_determiner_)
    /\ value(returned).dimensions #
            min_grid_params_for_max_occupancy_size(kernel_, dynamic_shared_memory_size_)

BlockExceedsKernel == invalid_argument("block dimensions exceed the kernel's maximum")

\* C13: in a validating build with a kernel set, a launch configuration build
\* returns has a block volume within the kernel's maximum threads per block;
\* block_dimensions returns only for such a block; and build throws
\* invalid_argument when the block it derives from grid and overall exceeds it.
C13_BlockWithinKernelMaximum ==
    (~NDEBUG /\ kernel_ # nullptr)
    => /\ Built => volume(value(returned).dimensions.block)
                        <= kernel_maximum_threads_per_block(kernel_)
       /\ (called = "block_dimensions" /\ thrown = NoThrow)
            => volume(value(block_)) <= kernel_maximum_threads_per_block(kernel_)
       /\ ( /\ called = "build" /\ NoMode
            /\ ~has_value(block_) /\ has_value(grid_) /\ has_value(overall_)
            /\ Positive(value(grid_))
            /\ \E r \in div_rounding_up_dims(value(overall_), value(grid_)) :
                    volume(value(r.value)) > kernel_maximum_threads_per_block(kernel_) )
            => thrown = BlockExceedsKernel /\ returned = nullopt

\* C13's case: build threw because the block it derived from grid and overall
\* exceeds the kernel's maximum
C13_Witness ==
    /\ ~NDEBUG /\ kernel_ # nullptr
    /\ called = "build" /\ NoMode
    /\ ~has_value(block_) /\ has_value(grid_) /\ has_value(overall_)
    /\ thrown = BlockExceedsKernel

\* C14: build() leaves every field of the builder as it was, whether it returns
\* or throws, and a build() right after a build() that returned a launch
\* configuration returns, if it returns, an equal one.
C14_BuildLeavesBuilder ==
    [][ called' = "build"
        => /\ UNCHANGED builder
           /\ (Built /\ thrown' = NoThrow) => returned' = returned ]_vars

\* C14's case: build returned a grid it derived, and the builder still has none
C14_Witness ==
    /\ Built
    /\ has_value(block_) /\ has_value(overall_) /\ ~has_value(grid_)
    /\ value(returned).dimensions.grid # <<1, 1, 1>>

\* C15, for the case it names: with block dimensions (all components >= 1) and
\* overall dimensions set, the launch configuration build returns has every
\* component of its block and of its grid >= 1.
C15_ComponentsAtLeastOne ==
    ( /\ Built /\ NoMode
      /\ has_value(block_) /\ has_value(overall_) /\ ~has_value(grid_)
      /\ Positive(value(block_)) )
    => /\ Positive(value(returned).dimensions.block)
       /\ Positive(value(returned).dimensions.grid)

\* C16 as stated: an overall value (components >= 1) set before the saturate
\* mode is enabled is still there in the saturate mode, to be carried into the
\* result of build.
C16_OverallPreservedInSaturateMode ==
    [][ ( /\ called' = "saturate_with_active_blocks" /\ thrown' = NoThrow
          /\ has_value(overall_) /\ Positive(value(overall_)) )
        => overall_' = overall_ ]_vars

\* C16 as amended: no overall value is present in the saturate mode, for
\* saturate_with_active_blocks() clears the one set earlier and
\* overall_dimensions, when it returns, leaves the saturate mode; so build in the
\* saturate mode, with no grid present either, does not throw for conflicting
\* specifications, and what it returns carries block and grid only.
C16_SaturateModeHasNoOverall ==
    /\ saturate_with_active_blocks_ => ~has_value(overall_)
    /\ (called = "saturate_with_active_blocks" /\ thrown = NoThrow)
        => saturate_with_active_blocks_ /\ ~has_value(grid_)
    /\ (called = "overall_dimensions" /\ thrown = NoThrow)
        => ~saturate_with_active_blocks_ /\ has_value(overall_)
    /\ (called = "build" /\ saturate_with_active_blocks_ /\ ~has_value(grid_))
        => thrown # ConflictingSpecifications
    /\ Built => DOMAIN value(returned).dimensions = {"block", "grid"}

\* C16's case: build was called in the saturate mode
C16_Witness ==
    /\ called = "build"
    /\ saturate_with_active_blocks_
    /\ has_value(block_) /\ ~has_value(overall_)

\* block_dimensions or grid_dimensions has just returned, with both present
BlockOrGridJustSet ==
    /\ called \in {"block_dimensions", "grid_dimensions"} /\ thrown = NoThrow
    /\ has_value(block_) /\ has_value(grid_)

\* C20: after block_dimensions returns with a grid present, and after
\* grid_dimensions returns with a block present, overall is absent; and a
\* resolve_dimensions() that follows and returns sets overall to grid * block
\* of the values then set.
C20_OverallCleared ==
    /\ [](BlockOrGridJustSet => ~has_value(overall_))
    /\ [][ (BlockOrGridJustSet /\ called' = "resolve_dimensions" /\ thrown' = NoThrow)
           => dimensions_' = [block   |-> block_,
                              grid    |-> grid_,
                              overall |-> Some(DimsProduct(value(grid_), value(block_)))] ]_vars

\* C20's case: block_dimensions returned with a grid present whose product with
\* the block is no overall value a caller passed
C20_Witness ==
    /\ called = "block_dimensions" /\ thrown = NoThrow
    /\ has_value(grid_) /\ ~has_value(overall_)
    /\ DimsProduct(value(grid_), value(block_)) \notin OverallDimsIn

\* what the target of the last process() received
received == value(marshalled).received

\* how many times a part was streamed into the target
Occurrences(parts, part) == Cardinality({i \in 1..Len(parts) : parts[i] = part})

\* x times: once when the condition holds, never otherwise
OnceIf(condition) == IF condition THEN 1 ELSE 0

\* C17: when use_fast_math is set, process() marshals --use_fast_math and none
\* of --ftz, --prec-sqrt=false, --prec-div=false and --fmad=false, whatever the
\* four toggles are; when it is not set, process() marshals each of the four
\* exactly when its toggle differs from its default, and no --use_fast_math.
C17_FastMathSubsumesToggles ==
    has_value(marshalled)
    => /\ Occurrences(received, "--use_fast_math") = OnceIf(opts.use_fast_math)
       /\ Occurrences(received, "--ftz")
            = OnceIf(~opts.use_fast_math /\ opts.flush_denormal_floats_to_zero
                        # DefaultOptions.flush_denormal_floats_to_zero)
       /\ Occurrences(received, "--prec-sqrt=false")
            = OnceIf(~opts.use_fast_math /\ opts.use_precise_square_root
                        # DefaultOptions.use_precise_square_root)
       /\ Occurrences(received, "--prec-div=false")
            = OnceIf(~opts.use_fast_math /\ opts.use_precise_division
                        # DefaultOptions.use_precise_division)
       /\ Occurrences(received, "--fmad=false")
            = OnceIf(~opts.use_fast_math /\ opts.use_fused_multiply_add
                        # DefaultOptions.use_fused_multiply_add)

\* C17's case: fast math is set and so are the four toggles it subsumes
C17_Witness ==
    /\ has_value(marshalled)
    /\ opts.use_fast_math
    /\ opts.flush_denormal_floats_to_zero
    /\ ~opts.use_precise_square_root /\ ~opts.use_precise_division
    /\ ~opts.use_fused_multiply_add
    /\ Occurrences(received, "--use_fast_math") = 1

\* the delimiter of the last process(), and whether it was to follow every option
delimiter_ == value(marshalled).delimiter
need_delimited_after_every_option_ == value(marshalled).need_delimited_after_every_option

\* C18 as stated: the target of process() receives no delimiter before the
\* first option, and, when a delimiter is requested after every option, it
\* receives the delimiter last, also when no option was marshalled.
C18_TrailingDelimiterAlways ==
    has_value(marshalled)
    => /\ received # <<>> => received[1] # delimiter_
       /\ need_delimited_after_every_option_
            => received # <<>> /\ received[Len(received)] = delimiter_

\* C18 as amended: the target of process() receives no delimiter before the
\* first option and no two delimiters in a row; when a delimiter is requested
\* after every option and an option was marshalled, it receives the delimiter
\* last; when no option was marshalled it receives nothing at all; and when no
\* delimiter is requested after every option it receives none last.
C18_TrailingDelimiterAfterAnOption ==
    has_value(marshalled)
    => /\ received # <<>> => received[1] # delimiter_
       /\ \A i \in 1..(Len(received) - 1) :
            ~(received[i] = delimiter_ /\ received[i + 1] = delimiter_)
       /\ opts = DefaultOptions => received = <<>>
       /\ received # <<>>
            => (received[Len(received)] = delimiter_) = need_delimited_after_every_option_

\* C18's case: a delimiter was requested after every option, and no option was
\* marshalled
C18_Witness ==
    /\ has_value(marshalled)
    /\ need_delimited_after_every_option_
    /\ opts = DefaultOptions
    /\ received = <<>>

\* C19: add_target(c) adds c to the targets and keeps the ones there;
\* set_target(c) leaves c as the only target.
C19_AddTargetKeepsTargets ==
    [][ /\ called' = "add_target"
            => \A c \in ComputeCapabilities :
                add_target(c) => opts'.targets_ = opts.targets_ \cup {c}
        /\ called' = "set_target"
            => \A c \in ComputeCapabilities :
                set_target(c) => opts'.targets_ = {c} ]_vars

\* the exceptions of get_composite_dimensions in a derivation mode
ModeExceptions ==
    {BothModes, KernelMustBeSet, BlockMustBeKnown, ConflictingSpecifications,
     KernelMustBeSetForMinParams, bad_optional_access}

\* C21: grid_dimensions and overall_dimensions, when they return, leave the
\* saturate mode; called in the saturate mode, they leave no mode active and the
\* block in place; and the build after them, with the block and the grid or the
\* overall dimensions just set, returns the block as set and the grid as set or
\* overall / block rounded up by div_rounding_up, and throws none of the
\* exceptions of a derivation mode.
C21_GridOrOverallLeavesSaturate ==
    [][ /\ ( /\ called' \in {"grid_dimensions", "overall_dimensions"}
             /\ thrown' = NoThrow )
            => /\ ~saturate_with_active_blocks_'
               /\ saturate_with_active_blocks_
                    => /\ NoMode'
                       /\ block_' = block_ /\ has_value(block_)
                       /\ has_value(grid_') \/ has_value(overall_')
        /\ ( /\ called \in {"grid_dimensions", "overall_dimensions"}
             /\ thrown = NoThrow /\ NoMode
             /\ has_value(block_)
             /\ called' = "build" )
            => /\ thrown' \notin ModeExceptions
               /\ thrown' = NoThrow
                    => /\ value(returned').dimensions.block = value(block_)
                       /\ IF called = "grid_dimensions"
                          THEN value(returned').dimensions.grid = value(grid_)
                          ELSE Ok(value(returned').dimensions.grid)
                                \in div_rounding_up_dims(value(overall_), value(block_)) ]_vars

\* C21's case: overall_dimensions has returned with a kernel and a block set
\* and no grid, as after the saturate mode, and no mode is active
C21_Witness ==
    /\ called = "overall_dimensions" /\ thrown = NoThrow
    /\ kernel_ # nullptr
    /\ has_value(block_) /\ ~has_value(grid_) /\ has_value(overall_)
    /\ NoMode

\* C22: after grid_dimensions returns, no derivation mode is active, the
\* min-occupancy mode neither.
C22_GridLeavesEveryMode ==
    (called = "grid_dimensions" /\ thrown = NoThrow) => NoMode

\* C23: use_maximum_linear_block() throws a logic_error, changing nothing, when
\* neither a kernel nor a device is set; otherwise it sets block to (max, 1, 1),
\* max being the kernel's maximum when a kernel is set and the device's
\* otherwise, makes overall absent when grid and overall were both present, and
\* leaves every other field as it was.
C23_UseMaximumLinearBlock ==
    [][ called' = "use_maximum_linear_block"
        => IF kernel_ = nullptr /\ ~has_value(device_)
           THEN thrown'.type = "logic_error" /\ UNCHANGED builder
           ELSE /\ thrown' = NoThrow
                /\ block_' = Some(<<IF kernel_ # nullptr
                                     THEN kernel_maximum_threads_per_block(kernel_)
                                     ELSE device_maximum_threads_per_block(value(device_)),
                                     1, 1>>)
                /\ overall_' = IF has_value(grid_) /\ has_value(overall_)
                               THEN nullopt ELSE overall_
                /\ UNCHANGED <<grid_, thread_block_cooperation,
                               dynamic_shared_memory_size_determiner_,
                               dynamic_shared_memory_size_, kernel_, device_,
                               saturate_with_active_blocks_,
                               use_min_params_for_max_occupancy_>> ]_vars

\* C23's case: with a device and no kernel, the block is the device's maximum,
\* and an overall value was cleared
C23_Witness ==
    /\ called = "use_maximum_linear_block" /\ thrown = NoThrow
    /\ kernel_ = nullptr /\ has_value(device_)
    /\ block_ = Some(<<device_maximum_threads_per_block(value(device_)), 1, 1>>)
    /\ has_value(grid_) /\ ~has_value(overall_)

\* C24: no_kernel() makes the kernel null and changes no other field; a mode
\* active before stays active, and build with a mode active and no kernel throws
\* the logic_error for a kernel that must be set.
C24_UnbindKernel ==
    /\ [][ called' = "no_kernel"
           => /\ thrown' = NoThrow
              /\ kernel_' = nullptr
              /\ UNCHANGED <<dimensions_, thread_block_cooperation,
                             dynamic_shared_memory_size_determiner_,
                             dynamic_shared_memory_size_, device_,
                             saturate_with_active_blocks_,
                             use_min_params_for_max_occupancy_>> ]_vars
    /\ [](( /\ called = "build" /\ kernel_ = nullptr /\ ~NoMode )
            => /\ thrown.type = "logic_error"
               /\ thrown = IF saturate_with_active_blocks_
                           THEN KernelMustBeSet ELSE KernelMustBeSetForMinParams)

\* C24's case: build threw in the saturate mode, the kernel having been unset
C24_Witness ==
    /\ called = "build"
    /\ saturate_with_active_blocks_ /\ kernel_ = nullptr
    /\ thrown = KernelMustBeSet

\* no axis of the overall dimensions reaches the limit of dimension_t
BelowDimensionLimit(dims) == \A i \in 1..3 : dims[i] < DimensionLimit

\* the block kernel() is to check: the one set, or overall / grid rounded up
BlockToValidate ==
    IF has_value(block_) THEN block_
    ELSE IF has_value(grid_) /\ has_value(overall_)
        THEN Some(CeilingDims(value(overall_), value(grid_)))
    ELSE nullopt

\* C25: in a validating build, kernel(k) throws and leaves the kernel bound
\* before when the block set, or with no block and grid and overall both set
\* the block overall / grid rounded up, has a volume above k's maximum, or when
\* the fixed shared memory size is not compatible with k; otherwise k becomes
\* the kernel and the dimensions stay (stated with no derivation mode active,
\* positive dimensions and an overall value below the limit of dimension_t).
C25_KernelValidatedAgainstNewKernel ==
    [][ \A k \in Kernels :
          ( /\ kernel(k) /\ ~NDEBUG /\ NoMode
            /\ has_value(grid_) => Positive(value(grid_))
            /\ has_value(block_) => Positive(value(block_))
            /\ has_value(overall_) => /\ Positive(value(overall_))
                                      /\ BelowDimensionLimit(value(overall_)) )
          => IF \/ /\ has_value(BlockToValidate)
                    /\ volume(value(BlockToValidate)) > kernel_maximum_threads_per_block(k)
                \/ validate_compatibility_kernel(k, dynamic_shared_memory_size_) # NoThrow
             THEN thrown' # NoThrow /\ UNCHANGED builder
             ELSE /\ thrown' = NoThrow
                  /\ kernel_' = k
                  /\ UNCHANGED dimensions_ ]_vars

\* C26: build, called with block, grid and overall all set and no derivation
\* mode active, returns the block and the grid as set or throws for
\* specifications that do not agree, with and without NDEBUG (stated for
\* positive dimensions and an overall value below the limit of dimension_t).
C26_BuildNeverChangesGrid ==
    ( /\ called = "build" /\ NoMode
      /\ has_value(block_) /\ has_value(grid_) /\ has_value(overall_)
      /\ Positive(value(block_)) /\ Positive(value(grid_))
      /\ Positive(value(overall_)) /\ BelowDimensionLimit(value(overall_)) )
    => \/ /\ thrown = NoThrow
          /\ value(returned).dimensions.block = value(block_)
          /\ value(returned).dimensions.grid = value(grid_)
       \/ thrown.type = "invalid_argument"

\* the mutators of the builder that can throw
Mutators ==
    {"block_dimensions", "grid_dimensions", "overall_dimensions", "dimensions",
     "dynamic_shared_memory_size", "kernel", "use_maximum_linear_block",
     "saturate_with_active_blocks", "min_params_for_max_occupancy"}

\* C27: a mutator of the builder that throws leaves every field of the builder
\* as it was before the call.
C27_FailedMutatorChangesNothing ==
    [][ (called' \in Mutators /\ thrown' # NoThrow) => UNCHANGED builder ]_vars

\* C27's case: grid_dimensions threw in the saturate mode, whose flag it clears
\* when it returns
C27_Witness ==
    /\ called = "grid_dimensions" /\ thrown # NoThrow
    /\ saturate_with_active_blocks_ /\ kernel_ # nullptr /\ has_value(block_)

\* C28: in the saturate mode the block is set and grid and overall are not, after
\* any sequence of mutators, dimensions(composite_dims) among them (stated
\* for positive dimensions).
C28_SaturateModeHasBlockOnly ==
    ( /\ saturate_with_active_blocks_
      /\ has_value(block_) => Positive(value(block_))
      /\ has_value(grid_) => Positive(value(grid_)) )
    => /\ has_value(block_)
       /\ ~has_value(grid_)
       /\ ~has_value(overall_)

\* C29: in a validating build with a device set, build with block and grid set,
\* positive, no overall value and no mode returns them whenever the volume of
\* the block is within the device's maximum (and the kernel's, when one is set),
\* whatever the volume of the grid.
C29_DeviceLimitsBlockOnly ==
    ( /\ called = "build" /\ ~NDEBUG /\ NoMode
      /\ has_value(device_)
      /\ has_value(block_) /\ has_value(grid_) /\ ~has_value(overall_)
      /\ Positive(value(block_)) /\ Positive(value(grid_))
      /\ volume(value(block_)) <= device_maximum_threads_per_block(value(device_))
      /\ kernel_ # nullptr
            => volume(value(block_)) <= kernel_maximum_threads_per_block(kernel_) )
    => /\ thrown = NoThrow
       /\ value(returned).dimensions = [block |-> value(block_), grid |-> value(grid_)]

====
